---- MODULE Spec2Model ----
(***************************************************************************)
(* PM QoS constraint aggregation (kernel/power/qos.c).                     *)
(*                                                                         *)
(* The state is the table of constraint classes (pm_qos_array), the        *)
(* request handles of the clients, the open device-node handles, the       *)
(* delayed work and the IRQ-affinity notification of each request, and     *)
(* pm_qos_lock.  A history variable records what the last operation did    *)
(* (the calls of pm_qos_update_target it made, what each returned and      *)
(* whether it called the notifier chain).                                  *)
(***************************************************************************)
EXTENDS Integers, Sequences, FiniteSets, TLC

\* ------------------------------------------------------------------ bounds
\* number of request handles (struct pm_qos_request) the clients own
MaxReq == 2
\* request values range over 0..MaxVal (and PM_QOS_DEFAULT_VALUE)
MaxVal == 2
\* number of requests of the flags set, and the largest value of their flags
MaxFlagReq == 3
MaxFlag == 3
\* number of threads that call intr_sync, of calls they make in all, and of
\* wakeup events
MaxThreads == 2
MaxCalls == 3
MaxWakeups == 1
\* number of buffers (struct mbo) the MOST core hands to the hdm_i2c module,
\* of interrupts it takes, the highest PML a message carries and the longest
\* buffer
MaxMbo == 2
MaxIrq == 2
MaxPml == 1
MaxBufLen == 4
\* u32 and s32 of octeon_console.c are kept with WordBits bits, and the
\* device has at most MaxConsoles consoles
WordBits == 4
MaxConsoles == 1

\* ------------------------------------------------------- program constants
NR_CPUS == 2
PM_QOS_DEFAULT_VALUE == -1
\* The class default values come from include/linux/pm_qos.h; small
\* stand-ins inside the value range are used.
PM_QOS_CPU_DMA_LAT_DEFAULT_VALUE == 1
PM_QOS_BUS_THROUGHPUT_DEFAULT_VALUE == 1
PM_QOS_DEVICE_THROUGHPUT_DEFAULT_VALUE == 1
PM_QOS_MEMORY_BANDWIDTH_DEFAULT_VALUE == 0
\* enum { CH_RX, CH_TX, NUM_CHANNELS } of the hdm_i2c module
CH_RX == 0
CH_TX == 1
NUM_CHANNELS == 2

CPUS == 0 .. (NR_CPUS - 1)
Reqs == 1 .. MaxReq
Values == 0 .. MaxVal
InValues == Values \cup {PM_QOS_DEFAULT_VALUE}
Masks == SUBSET CPUS

ReqTypes == {"PM_QOS_REQ_ALL_CORES", "PM_QOS_REQ_AFFINE_CORES", "PM_QOS_REQ_AFFINE_IRQ"}

\* a field left out of a static initializer is zero
AllCpus(v) == [cpu \in CPUS |-> v]

cpu_dma_constraints ==
  [list |-> << >>, target_value |-> PM_QOS_CPU_DMA_LAT_DEFAULT_VALUE,
   target_per_cpu |-> AllCpus(PM_QOS_CPU_DMA_LAT_DEFAULT_VALUE),
   default_value |-> PM_QOS_CPU_DMA_LAT_DEFAULT_VALUE,
   no_constraint_value |-> PM_QOS_CPU_DMA_LAT_DEFAULT_VALUE,
   type |-> "PM_QOS_MIN", notifiers |-> "cpu_dma_lat_notifier"]

bus_tput_constraints ==
  [list |-> << >>, target_value |-> PM_QOS_BUS_THROUGHPUT_DEFAULT_VALUE,
   target_per_cpu |-> AllCpus(PM_QOS_BUS_THROUGHPUT_DEFAULT_VALUE),
   default_value |-> PM_QOS_BUS_THROUGHPUT_DEFAULT_VALUE,
   no_constraint_value |-> 0,
   type |-> "PM_QOS_MAX", notifiers |-> "bus_throughput_notifier"]

device_tput_constraints ==
  [list |-> << >>, target_value |-> PM_QOS_DEVICE_THROUGHPUT_DEFAULT_VALUE,
   target_per_cpu |-> AllCpus(PM_QOS_DEVICE_THROUGHPUT_DEFAULT_VALUE),
   default_value |-> PM_QOS_DEVICE_THROUGHPUT_DEFAULT_VALUE,
   no_constraint_value |-> 0,
   type |-> "PM_QOS_FORCE_MAX", notifiers |-> "device_throughput_notifier"]

memory_bw_constraints ==
  [list |-> << >>, target_value |-> PM_QOS_MEMORY_BANDWIDTH_DEFAULT_VALUE,
   target_per_cpu |-> AllCpus(0),
   default_value |-> PM_QOS_MEMORY_BANDWIDTH_DEFAULT_VALUE,
   no_constraint_value |-> PM_QOS_MEMORY_BANDWIDTH_DEFAULT_VALUE,
   type |-> "PM_QOS_SUM", notifiers |-> "memory_bandwidth_notifier"]

\* pm_qos_array without its entry 0 (null_pm_qos): class k is pm_qos_array[k],
\* and pm_qos_class = 0 marks a handle that is in no class.
pm_qos_array ==
  << cpu_dma_constraints, bus_tput_constraints, device_tput_constraints,
     memory_bw_constraints >>

Classes == 1 .. Len(pm_qos_array)

\* a struct pm_qos_request after kzalloc or memset(req, 0, sizeof(*req))
ZeroReq ==
  [pm_qos_class |-> 0, prio |-> 0, cpus_affine |-> {},
   type |-> "PM_QOS_REQ_ALL_CORES"]

VARIABLES
  constraints,   \* [Classes -> struct pm_qos_constraints]
  req,           \* [Reqs -> struct pm_qos_request]
  filp,          \* [Reqs -> the file of a device node whose request it is]
  work,          \* [Reqs -> state of the delayed work req->work]
  notify,        \* [Reqs -> the IRQ affinity notification in flight]
  caller,        \* [Reqs -> the call its owner is in the middle of]
  pm_qos_lock,   \* 0, or the handle whose call holds the spinlock
  cs,            \* the call of pm_qos_update_target that holds the lock
  uc,            \* the call of pm_qos_update_constraints in progress
  panic,         \* "none", or why the kernel has stopped
  last           \* what the last operation did

lockVars == << pm_qos_lock, cs, uc >>

qosVars == << constraints, req, filp, work, notify, caller, pm_qos_lock, cs, uc,
              panic, last >>

\* a set of device PM QoS flags (struct pm_qos_flags), the flags of the
\* requests (struct pm_qos_flags_request), and the last pm_qos_update_flags
VARIABLES pqf, flags_req, flags_last

flagsVars == << pqf, flags_req, flags_last >>

\* intr_sync (drivers/battery/max77843_charger.c): the workqueue, the index of
\* the work that started last, the two sync works, the works queued on the
\* ordered workqueue, the worker, the callers of intr_sync, the wakeup
\* counters of the PM core, and the count of the worker's sys_sync calls
VARIABLES intr_sync_wq, running_work_idx, intr_sync_work, wq_queue, worker,
          thread, wakeup, sys_sync

syncVars == << intr_sync_wq, running_work_idx, intr_sync_work, wq_queue, worker,
               thread, wakeup, sys_sync >>

\* hdm_i2c (MOST hardware dependent module for I2C): the device (struct
\* hdm_i2c: is_open, polling_mode, rx.list), the buffers of the MOST core, the
\* delayed work rx.dwork and the run of pending_rx_work, the interrupt line
\* of the client, and the thread of the MOST core that calls the module
VARIABLES dev, mbo, rx_work, irq, core

mostVars == << dev, mbo, rx_work, irq, core >>

\* liquidio console: the host's view of the device (oct->num_consoles, the
\* console's buffer_size), the console's indexes in device memory (struct
\* octeon_pci_console), and the last call of octeon_console_read
VARIABLES oct, pci_console, console_read

consoleVars == << oct, pci_console, console_read >>

otherVars == << flagsVars, syncVars, mostVars, consoleVars >>

vars == << qosVars, otherVars >>

\* ------------------------------------------------------------------- flags
\* the requests of the flags set, and the values of their flags
FlagReqs == 1 .. MaxFlagReq
FlagVals == 0 .. MaxFlag

\* a | b on the flags
RECURSIVE BitOr(_, _)
BitOr(a, b) ==
  IF a = 0 THEN b
  ELSE IF b = 0 THEN a
  ELSE (IF a % 2 = 1 \/ b % 2 = 1 THEN 1 ELSE 0) + 2 * BitOr(a \div 2, b \div 2)

\* the callers of intr_sync
Threads == 1 .. MaxThreads

\* ------------------------------------------------------------------- plist
\* plist_del: the list without the node
plist_del(list, r) == SelectSeq(list, LAMBDA x : x # r)

\* plist_add: the node goes before the first node of strictly higher prio,
\* so the list stays sorted by prio, oldest first among equals
RECURSIVE plist_pos(_, _, _, _)
plist_pos(list, rq, prio, i) ==
  IF i > Len(list) \/ prio < rq[list[i]].prio THEN i
  ELSE plist_pos(list, rq, prio, i + 1)

plist_add(list, rq, r) ==
  LET i == plist_pos(list, rq, rq[r].prio, 1)
  IN SubSeq(list, 1, i - 1) \o << r >> \o SubSeq(list, i, Len(list))

RECURSIVE total_value(_, _)
total_value(list, rq) ==
  IF list = << >> THEN 0 ELSE rq[Head(list)].prio + total_value(Tail(list), rq)

\* ------------------------------------------------------------- aggregation
\* a pm_qos_get_value that took plist_first for every extremum, to show that
\* the order of the list and the type of the class matter
get_value_plist_first(c, rq) ==
  IF c.list = << >> THEN c.no_constraint_value
  ELSE IF c.type = "PM_QOS_SUM" THEN total_value(c.list, rq)
  ELSE rq[c.list[1]].prio

pm_qos_get_value(c, rq) ==
  IF c.list = << >> THEN c.no_constraint_value
  ELSE CASE c.type = "PM_QOS_MIN" -> rq[c.list[1]].prio
         [] c.type \in {"PM_QOS_MAX", "PM_QOS_FORCE_MAX"} -> rq[c.list[Len(c.list)]].prio
         [] c.type = "PM_QOS_SUM" -> total_value(c.list, rq)

\* the switch of pm_qos_set_value_for_cpus reaches its default: BUG() for a
\* class of another type, once some request of the list has a CPU in its mask
set_value_for_cpus_BUG(c, rq) ==
  /\ c.type \notin {"PM_QOS_MIN", "PM_QOS_MAX", "PM_QOS_FORCE_MAX"}
  /\ \E i \in 1 .. Len(c.list) : rq[c.list[i]].cpus_affine # {}

\* a pm_qos_set_value_for_cpus that looked at no cpus_affine, every request
\* constraining every CPU
set_value_for_all_cpus(c, rq) ==
  [cpu \in CPUS |->
     IF c.list = << >> THEN c.default_value
     ELSE CASE c.type = "PM_QOS_MIN" ->
                 IF c.default_value < rq[c.list[1]].prio
                 THEN c.default_value ELSE rq[c.list[1]].prio
            [] c.type = "PM_QOS_MAX" ->
                 IF c.default_value > rq[c.list[Len(c.list)]].prio
                 THEN c.default_value ELSE rq[c.list[Len(c.list)]].prio
            [] OTHER -> rq[c.list[Len(c.list)]].prio]

RECURSIVE qos_val(_, _, _, _)
qos_val(c, rq, cpu, i) ==
  IF i = 0 THEN c.default_value
  ELSE LET before == qos_val(c, rq, cpu, i - 1)
           r == c.list[i]
       IN IF cpu \notin rq[r].cpus_affine THEN before
          ELSE CASE c.type = "PM_QOS_MIN" ->
                      IF before > rq[r].prio THEN rq[r].prio ELSE before
                 [] c.type = "PM_QOS_MAX" ->
                      IF rq[r].prio > before THEN rq[r].prio ELSE before
                 [] c.type = "PM_QOS_FORCE_MAX" -> rq[r].prio
                 [] OTHER -> before

pm_qos_set_value_for_cpus(c, rq) ==
  [cpu \in CPUS |-> qos_val(c, rq, cpu, Len(c.list))]

\* a pm_qos_update_target without the branch for PM_QOS_FORCE_MAX
notifier_called_on_change(c, prev_value, curr_value) ==
  prev_value # curr_value /\ c.notifiers # "NULL"

\* whether pm_qos_update_target calls the notifier chain, and what it returns
notifier_called(c, prev_value, curr_value) ==
  \/ c.type = "PM_QOS_FORCE_MAX"
  \/ prev_value # curr_value /\ c.notifiers # "NULL"

update_target_ret(c, prev_value, curr_value) ==
  IF c.type = "PM_QOS_FORCE_MAX" THEN 1
  ELSE IF prev_value # curr_value THEN 1 ELSE 0

\* pm_qos_update_target, its critical section: the class with its new list
\* and target_value, the requests, and the aggregate before the change
update_target_locked(c, rq, r, action, value) ==
  LET new_value == IF value = PM_QOS_DEFAULT_VALUE THEN c.default_value ELSE value
      rq1 == IF action \in {"PM_QOS_UPDATE_REQ", "PM_QOS_ADD_REQ"}
             THEN [rq EXCEPT ![r].prio = new_value] ELSE rq
      list1 == CASE action = "PM_QOS_REMOVE_REQ" -> plist_del(c.list, r)
                 [] action = "PM_QOS_UPDATE_REQ" ->
                      plist_add(plist_del(c.list, r), rq1, r)
                 [] action = "PM_QOS_ADD_REQ" -> plist_add(c.list, rq1, r)
      c1 == [c EXCEPT !.list = list1]
  IN [prev_value |-> pm_qos_get_value(c, rq),
      c |-> [c1 EXCEPT !.target_value = pm_qos_get_value(c1, rq1)],
      req |-> rq1]

\* pm_qos_update_target(c, req, action, value, notify_param): the outcome of
\* the call, as a set of one element: the new constraints and requests,
\* whether BUG() was hit, and the record of the call
pm_qos_update_target(cons, rq, k, r, action, value) ==
  { LET hit == set_value_for_cpus_BUG(l.c, l.req)
        curr_value == l.c.target_value
    IN [cons |-> [cons EXCEPT ![k] =
                    IF hit THEN l.c
                    ELSE [l.c EXCEPT !.target_per_cpu =
                                       pm_qos_set_value_for_cpus(l.c, l.req)]],
        req |-> l.req,
        panic |-> IF hit THEN "BUG" ELSE "none",
        calls |-> << [class |-> k, action |-> action,
                      prev_value |-> l.prev_value, curr_value |-> curr_value,
                      returned |-> ~hit,
                      notified |-> ~hit /\ notifier_called(l.c, l.prev_value,
                                                           curr_value),
                      ret |-> IF hit THEN -1
                              ELSE update_target_ret(l.c, l.prev_value,
                                                     curr_value)] >>]
    : l \in {update_target_locked(cons[k], rq, r, action, value)} }

\* ---------------------------------------------------------------- queries
pm_qos_request(k) == constraints[k].target_value
pm_qos_request_for_cpu(k, cpu) == constraints[k].target_per_cpu[cpu]
pm_qos_request_active(r) == req[r].pm_qos_class # 0

\* --------------------------------------------------------------------- Init
NoNotify == [pc |-> "idle", class |-> 0, mask |-> {}, val |-> 0]
NoCall == [pc |-> "none", value |-> 0]
NoUc == [pc |-> "none", class |-> 0, new |-> 0]
NoCs == [action |-> "none", req |-> 0, class |-> 0, value |-> 0]

\* filp[r].node = k: r was allocated by an open of the node of class k (0: r
\* is a handle of a kernel client); opened: that open has returned, and the
\* file holds r as its private_data
NoFile == [node |-> 0, opened |-> FALSE]

\* a flags set as its owner initialises it: no request, no flag
InitFlags ==
  /\ pqf = [list |-> << >>, effective_flags |-> 0]
  /\ flags_req = [r \in FlagReqs |-> 0]
  /\ flags_last = [action |-> "none", req |-> 0, ret |-> FALSE,
                   list |-> << >>, flags |-> flags_req]

\* a caller that is not inside intr_sync; ret is what its last call returned
\* and path the way that call took
NoThread ==
  [pc |-> "out", work_idx |-> 0, work_ver |-> 0, wd |-> 0, ret |-> "none",
   path |-> "none", seen |-> [cnt |-> 0, inpr |-> FALSE], reg_state |-> "none",
   reg_sync |-> 0]

\* static struct interruptible_sync_work intr_sync_work[2], running_work_idx
\* and intr_sync_wq are zero at boot
InitSync ==
  /\ intr_sync_wq = "NULL"
  /\ running_work_idx = 0
  /\ intr_sync_work = [i \in {0, 1} |->
       [state |-> "INTR_SYNC_STATE_IDLE", waiter |-> 0, version |-> 0,
        done |-> FALSE]]
  /\ wq_queue = << >>
  /\ worker = [pc |-> "idle", work |-> 0, waiter |-> 0]
  /\ thread = [t \in Threads |-> NoThread]
  /\ wakeup = [cnt |-> 0, inpr |-> FALSE]
  /\ sys_sync = [started |-> 0, done |-> 0, calls |-> 0]

\* the module before i2c_probe: no device yet, the buffers with the MOST core
Channels == 0 .. (NUM_CHANNELS - 1)
Mbos == 1 .. MaxMbo
BufLens == {MaxBufLen - 2, MaxBufLen}
NoMbo ==
  [state |-> "core", buffer_length |-> 0, processed_length |-> 0,
   status |-> "none", by |-> "none"]
NoCore == [pc |-> "idle", cur |-> 0, waiting |-> {}, returned |-> FALSE,
           ret |-> "none"]

InitMost ==
  /\ dev = [probed |-> FALSE, is_open |-> [c \in Channels |-> FALSE],
            polling_mode |-> FALSE, rx_list |-> << >>]
  /\ mbo = [m \in Mbos |-> NoMbo]
  /\ rx_work = [pending |-> FALSE, pc |-> "idle", data_size |-> 0, cur |-> 0,
                enabled |-> 0]
  /\ irq = [depth |-> 0, disables |-> 0, enables |-> 0, unbalanced |-> FALSE]
  /\ core = NoCore

\* the liquidio device before octeon_init_consoles: no console
NoRead == [called |-> FALSE, console_num |-> 0, buf_size |-> 0,
           num_consoles |-> 0, buffer_size |-> 0, rd_idx |-> 0, wr_idx |-> 0,
           avail |-> 0, ret |-> 0, copied |-> FALSE, len |-> 0,
           index |-> 0]

InitConsole ==
  /\ oct = [num_consoles |-> 0, active |-> FALSE, buffer_size |-> 0]
  /\ pci_console = [output_read_index |-> 0, output_write_index |-> 0]
  /\ console_read = NoRead

Init ==
  /\ constraints = [k \in Classes |-> pm_qos_array[k]]
  /\ req = [r \in Reqs |-> ZeroReq]
  /\ filp = [r \in Reqs |-> NoFile]
  /\ work = [r \in Reqs |-> "idle"]
  /\ notify = [r \in Reqs |-> NoNotify]
  /\ caller = [r \in Reqs |-> NoCall]
  /\ pm_qos_lock = 0
  /\ cs = NoCs
  /\ uc = NoUc
  /\ panic = "none"
  /\ last = [op |-> "init", req |-> 0, class |-> 0, calls |-> << >>,
             value |-> 0, old |-> 0, mask |-> {}]
  /\ InitFlags
  /\ InitSync
  /\ InitMost
  /\ InitConsole

\* the record of an operation: the handle and class it acted on, its calls of
\* pm_qos_update_target, and where they matter the value and the mask it was
\* given and the value the request held before
DidV(op, r, k, calls, value, old, mask) ==
  last' = [op |-> op, req |-> r, class |-> k, calls |-> calls,
           value |-> value, old |-> old, mask |-> mask]

Did(op, r, k, calls) == DidV(op, r, k, calls, 0, 0, {})

\* if (delayed_work_pending(&req->work)) cancel_delayed_work_sync(&req->work):
\* a pending work is cancelled; one that is already running is left to run.
\* (A work that is both running and pending is waited for first, see
\* CancelWhileRunning.)
cancel_pending(w) == IF w = "pending" THEN "idle" ELSE w

\* queue_delayed_work(system_power_efficient_wq, &req->work, delay)
queue_delayed_work(w) ==
  CASE w = "idle" -> "pending"
    [] w = "running" -> "running_pending"
    [] OTHER -> w

\* the owner of a kernel handle makes one call at a time, and is held in
\* cancel_delayed_work_sync while the work it cancelled still runs
OwnerMayCall(r) ==
  /\ filp[r] = NoFile
  /\ caller[r] = NoCall
  /\ work[r] \in {"idle", "pending", "running"}
  /\ pm_qos_lock = 0

\* ----------------------------------------------------------- the kernel API
\* what a caller may have put into the handle before pm_qos_add_request:
\* any set of CPUs with PM_QOS_REQ_AFFINE_CORES, an IRQ with
\* PM_QOS_REQ_AFFINE_IRQ (its affinity is never empty)
AddInputs ==
  {<< "PM_QOS_REQ_ALL_CORES", {}, FALSE >>}
  \cup {<< "PM_QOS_REQ_AFFINE_CORES", m, FALSE >> : m \in Masks}
  \cup {<< "PM_QOS_REQ_AFFINE_IRQ", m, TRUE >> : m \in Masks \ {{}}}
  \cup {<< "PM_QOS_REQ_AFFINE_IRQ", CPUS, FALSE >>}

\* pm_qos_add_request_trace up to its call of pm_qos_update_target: the caller
\* has set req->type and req->cpus_affine (mask) or req->irq, whose present
\* affinity is mask; irq_ok: the affinity of the IRQ can be set and the
\* notifier is registered
add_request_init(rq, r, k, type, mask, irq_ok) ==
  LET affine == \/ type = "PM_QOS_REQ_AFFINE_CORES" /\ mask # {}
                \/ type = "PM_QOS_REQ_AFFINE_IRQ" /\ irq_ok
  IN [rq EXCEPT ![r] =
        [pm_qos_class |-> k, prio |-> rq[r].prio,
         cpus_affine |-> IF affine THEN mask ELSE CPUS,
         type |-> IF affine THEN type ELSE "PM_QOS_REQ_ALL_CORES"]]

\* pm_qos_add_request_trace(func, line, req, pm_qos_class, value)
add_request(cons, rq, r, k, value, type, mask, irq_ok) ==
  pm_qos_update_target(cons, add_request_init(rq, r, k, type, mask, irq_ok),
                       k, r, "PM_QOS_ADD_REQ", value)

AddRequest(r, classes, inputs) ==
  /\ OwnerMayCall(r)
  /\ IF pm_qos_request_active(r)
     THEN /\ Did("add_warn", r, 0, << >>)
          /\ UNCHANGED << constraints, req, panic >>
     ELSE \E k \in classes, value \in InValues, in \in inputs :
            \E u \in add_request(constraints, req, r, k, value, in[1], in[2], in[3]) :
               /\ constraints' = u.cons
               /\ req' = u.req
               /\ panic' = u.panic
               /\ Did("add", r, k, u.calls)
  /\ UNCHANGED << filp, work, notify, caller, lockVars >>

Add(r) == AddRequest(r, Classes, AddInputs)

\* a call that returns without a call of pm_qos_update_target
no_update(cons, rq) ==
  {[cons |-> cons, req |-> rq, panic |-> "none", calls |-> << >>]}

\* __pm_qos_update_request(req, new_value, notify_param)
update_request(cons, rq, r, new_value) ==
  IF new_value # rq[r].prio
  THEN pm_qos_update_target(cons, rq, rq[r].pm_qos_class, r,
                            "PM_QOS_UPDATE_REQ", new_value)
  ELSE no_update(cons, rq)

\* pm_qos_update_request(req, new_value)
Update(r, new_value) ==
  /\ OwnerMayCall(r)
  /\ IF ~pm_qos_request_active(r)
     THEN /\ Did("update_warn", r, 0, << >>)
          /\ UNCHANGED << constraints, req, work, panic >>
     ELSE \E u \in update_request(constraints, req, r, new_value) :
             /\ work' = [work EXCEPT ![r] = cancel_pending(@)]
             /\ constraints' = u.cons
             /\ req' = u.req
             /\ panic' = u.panic
             /\ Did("update", r, req[r].pm_qos_class, u.calls)
  /\ UNCHANGED << filp, notify, caller, lockVars >>

\* pm_qos_irq_release(ref): the last reference to the notifier is dropped
irq_release(cons, rq, r) ==
  pm_qos_update_target(cons, [rq EXCEPT ![r].cpus_affine = CPUS],
                       rq[r].pm_qos_class, r, "PM_QOS_UPDATE_REQ",
                       cons[rq[r].pm_qos_class].default_value)

\* a pm_qos_remove_request without the memset of the handle
remove_request_no_memset(cons, rq, r, in_flight) ==
  pm_qos_update_target(cons, rq, rq[r].pm_qos_class, r, "PM_QOS_REMOVE_REQ",
                       PM_QOS_DEFAULT_VALUE)

\* pm_qos_remove_request(req); in_flight: an affinity notification of the
\* request is running and holds a reference, so the release is not called here
remove_request(cons, rq, r, in_flight) ==
  UNION {
    IF u1.panic # "none" THEN {u1}
    ELSE { [cons |-> u2.cons,
            req |-> IF u2.panic = "none" THEN [u2.req EXCEPT ![r] = ZeroReq]
                    ELSE u2.req,
            panic |-> u2.panic,
            calls |-> u1.calls \o u2.calls]
           : u2 \in pm_qos_update_target(u1.cons, u1.req, rq[r].pm_qos_class, r,
                                         "PM_QOS_REMOVE_REQ",
                                         PM_QOS_DEFAULT_VALUE) }
    : u1 \in IF rq[r].type = "PM_QOS_REQ_AFFINE_IRQ" /\ ~in_flight
             THEN irq_release(cons, rq, r) ELSE no_update(cons, rq) }

Remove(r) ==
  /\ OwnerMayCall(r)
  /\ IF ~pm_qos_request_active(r)
     THEN /\ Did("remove_warn", r, 0, << >>)
          /\ UNCHANGED << constraints, req, work, panic >>
     ELSE \E u \in remove_request(constraints, req, r, notify[r].pc # "idle") :
             /\ work' = [work EXCEPT ![r] = cancel_pending(@)]
             /\ constraints' = u.cons
             /\ req' = u.req
             /\ panic' = u.panic
             /\ Did("remove", r, req[r].pm_qos_class, u.calls)
  /\ UNCHANGED << filp, notify, caller, lockVars >>

\* ---------------------------------------------------------- the device node
\* pm_qos_power_open(inode, filp) on the node of class k; r is the memory
\* kzalloc returns, nomem: kzalloc fails
Open(r, k, nomem) ==
  /\ OwnerMayCall(r)
  /\ ~pm_qos_request_active(r)
  /\ work[r] = "idle" /\ notify[r].pc = "idle"
  /\ IF nomem
     THEN /\ Did("open_ENOMEM", 0, k, << >>)
          /\ UNCHANGED << constraints, req, filp, panic >>
     ELSE \E u \in add_request(constraints, [req EXCEPT ![r] = ZeroReq], r, k,
                               PM_QOS_DEFAULT_VALUE, "PM_QOS_REQ_ALL_CORES",
                               {}, FALSE) :
             /\ constraints' = u.cons
             /\ req' = u.req
             /\ panic' = u.panic
             /\ filp' = [filp EXCEPT ![r] = [node |-> k, opened |-> u.panic = "none"]]
             /\ Did("open", r, k, u.calls)
  /\ UNCHANGED << work, notify, caller, lockVars >>

\* pm_qos_power_write(filp, buf, count, f_pos) with the value parsed from buf
Write(r, value) ==
  /\ filp[r].opened
  /\ pm_qos_lock = 0
  /\ \E u \in update_request(constraints, req, r, value) :
        /\ constraints' = u.cons
        /\ req' = u.req
        /\ panic' = u.panic
        /\ Did("write", r, req[r].pm_qos_class, u.calls)
  /\ UNCHANGED << filp, work, notify, caller, lockVars >>

\* pm_qos_power_release(inode, filp)
Release(r) ==
  /\ filp[r].opened
  /\ pm_qos_lock = 0
  /\ \E u \in remove_request(constraints, req, r, FALSE) :
        /\ constraints' = u.cons
        /\ req' = u.req
        /\ panic' = u.panic
        /\ filp' = IF u.panic = "none" THEN [filp EXCEPT ![r] = NoFile] ELSE filp
        /\ Did("release", r, req[r].pm_qos_class, u.calls)
  /\ UNCHANGED << work, notify, caller, lockVars >>

NextApi ==
  /\ panic = "none"
  /\ UNCHANGED otherVars
  /\ \E r \in Reqs :
       \/ Add(r)
       \/ \E value \in InValues : Update(r, value)
       \/ Remove(r)
       \/ \E k \in Classes, nomem \in BOOLEAN : Open(r, k, nomem)
       \/ \E value \in InValues : Write(r, value)
       \/ Release(r)

Spec == Init /\ [][NextApi]_vars

\* ------------------------------------------------------ the timeout of a request
\* pm_qos_update_request_timeout(req, new_value, timeout_us) up to its call of
\* queue_delayed_work
TimeoutUpdate(r, new_value) ==
  /\ OwnerMayCall(r)
  /\ IF ~pm_qos_request_active(r)
     THEN /\ Did("timeout_warn", r, 0, << >>)
          /\ UNCHANGED << constraints, req, work, caller, panic >>
     ELSE \E u \in update_request(constraints, req, r, new_value) :
             /\ work' = [work EXCEPT ![r] = cancel_pending(@)]
             /\ constraints' = u.cons
             /\ req' = u.req
             /\ panic' = u.panic
             /\ caller' = [caller EXCEPT ![r] = [pc |-> "queue", value |-> new_value]]
             /\ Did("timeout_update", r, req[r].pm_qos_class, u.calls)
  /\ UNCHANGED << filp, notify, lockVars >>

\* queue_delayed_work, and pm_qos_update_request_timeout returns
TimeoutReturn(r) ==
  /\ caller[r].pc = "queue"
  /\ work' = [work EXCEPT ![r] = queue_delayed_work(@)]
  /\ caller' = [caller EXCEPT ![r] = NoCall]
  /\ DidV("timeout", r, req[r].pm_qos_class, << >>, caller[r].value, 0, {})
  /\ UNCHANGED << constraints, req, filp, notify, panic, lockVars >>

\* the owner calls update, update_timeout or remove while the work is queued
\* again and its earlier run has not finished: cancel_delayed_work_sync takes
\* the work off the queue and waits for the run to end
CancelWhileRunning(r) ==
  /\ filp[r] = NoFile /\ caller[r] = NoCall
  /\ pm_qos_request_active(r)
  /\ work[r] = "running_pending"
  /\ work' = [work EXCEPT ![r] = "running_waited"]
  /\ UNCHANGED << constraints, req, filp, notify, caller, panic, last, lockVars >>

\* the delay is over: a worker takes the work and clears its pending bit
WorkFire(r) ==
  /\ work[r] = "pending"
  /\ work' = [work EXCEPT ![r] = "running"]
  /\ UNCHANGED << constraints, req, filp, notify, caller, panic, last, lockVars >>

\* pm_qos_work_fn(work).  A handle that pm_qos_remove_request has zeroed
\* meanwhile is of class 0, whose constraints pointer is NULL.
WorkRun(r) ==
  /\ work[r] \in {"running", "running_pending", "running_waited"}
  /\ pm_qos_lock = 0
  /\ work' = [work EXCEPT ![r] = IF @ = "running_pending" THEN "pending" ELSE "idle"]
  /\ IF ~pm_qos_request_active(r)
     THEN /\ panic' = "NULL"
          /\ Did("work", r, 0, << >>)
          /\ UNCHANGED << constraints, req >>
     ELSE \E u \in update_request(constraints, req, r, PM_QOS_DEFAULT_VALUE) :
             /\ constraints' = u.cons
             /\ req' = u.req
             /\ panic' = u.panic
             /\ Did("work", r, req[r].pm_qos_class, u.calls)
  /\ UNCHANGED << filp, notify, caller, lockVars >>

\* the timeouts are examined with requests for all cores
AddAllCores(r) ==
  AddRequest(r, Classes, {<< "PM_QOS_REQ_ALL_CORES", {}, FALSE >>})

NextTimeout ==
  /\ panic = "none"
  /\ UNCHANGED otherVars
  /\ \E r \in Reqs :
       \/ AddAllCores(r)
       \/ \E value \in InValues : Update(r, value)
       \/ Remove(r)
       \/ \E value \in InValues : TimeoutUpdate(r, value)
       \/ TimeoutReturn(r)
       \/ CancelWhileRunning(r)
       \/ WorkFire(r)
       \/ WorkRun(r)

SpecTimeout == Init /\ [][NextTimeout]_vars

\* ------------------------------------------- the IRQ affinity notification
\* pm_qos_irq_notify(notify, mask), up to the end of its own critical section:
\* c is taken from the class of the request, and the mask is copied
IrqNotifyCopy(r, mask) ==
  /\ notify[r].pc = "idle"
  /\ pm_qos_request_active(r)
  /\ req[r].type = "PM_QOS_REQ_AFFINE_IRQ"
  /\ pm_qos_lock = 0
  /\ req' = [req EXCEPT ![r].cpus_affine = mask]
  /\ notify' = [notify EXCEPT ![r] =
                  [pc |-> "copied", class |-> req[r].pm_qos_class,
                   mask |-> mask, val |-> 0]]
  /\ UNCHANGED << constraints, filp, work, caller, panic, last, lockVars >>

\* the argument req->node.prio of the call of pm_qos_update_target is read,
\* the lock not held
IrqNotifyRead(r) ==
  /\ notify[r].pc = "copied"
  /\ notify' = [notify EXCEPT ![r].pc = "read", ![r].val = req[r].prio]
  /\ UNCHANGED << constraints, req, filp, work, caller, panic, last, lockVars >>

\* pm_qos_update_target(c, req, PM_QOS_UPDATE_REQ, <the value read>, NULL).
\* A handle that was removed meanwhile is zeroed, or is in another list by
\* now: plist_del follows its pointers.
IrqNotifyUpdate(r) ==
  /\ notify[r].pc = "read"
  /\ pm_qos_lock = 0
  /\ notify' = [notify EXCEPT ![r] = NoNotify]
  /\ IF req[r].pm_qos_class # notify[r].class
     THEN /\ panic' = "NULL"
          /\ Did("irq_notify", r, 0, << >>)
          /\ UNCHANGED << constraints, req >>
     ELSE \E u \in pm_qos_update_target(constraints, req, notify[r].class, r,
                                         "PM_QOS_UPDATE_REQ", notify[r].val) :
             /\ constraints' = u.cons
             /\ req' = u.req
             /\ panic' = u.panic
             /\ DidV("irq_notify", r, notify[r].class, u.calls, 0,
                     req[r].prio, notify[r].mask)
  /\ UNCHANGED << filp, work, caller, lockVars >>

\* the notifications are examined with requests of the class cpu_dma_latency
\* (pm_qos_array[1]) that are bound to an IRQ
AddAffineIrq(r) ==
  AddRequest(r, {1}, {<< "PM_QOS_REQ_AFFINE_IRQ", m, TRUE >> : m \in Masks \ {{}}})

NextIrq ==
  /\ panic = "none"
  /\ UNCHANGED otherVars
  /\ \E r \in Reqs :
       \/ AddAffineIrq(r)
       \/ \E value \in InValues : Update(r, value)
       \/ Remove(r)
       \/ \E mask \in Masks \ {{}} : IrqNotifyCopy(r, mask)
       \/ IrqNotifyRead(r)
       \/ IrqNotifyUpdate(r)

SpecIrq == Init /\ [][NextIrq]_vars

\* ------------------------------------------------------------ pm_qos_lock
\* The calls are taken apart at spin_lock_irqsave: a call of
\* pm_qos_update_target first takes the lock, then runs its critical section
\* and the rest; pm_qos_update_constraints makes its writes one by one.

\* the classes these calls are made on: cpu_dma_latency and bus_throughput
LockClasses == {1, 2}

\* pm_qos_add_request (a request for all cores) as far as spin_lock_irqsave
LockAdd(r) ==
  /\ OwnerMayCall(r)
  /\ ~pm_qos_request_active(r)
  /\ \E k \in LockClasses, value \in InValues :
       /\ req' = add_request_init(req, r, k, "PM_QOS_REQ_ALL_CORES", {}, FALSE)
       /\ cs' = [action |-> "PM_QOS_ADD_REQ", req |-> r, class |-> k,
                 value |-> value]
  /\ pm_qos_lock' = r
  /\ UNCHANGED << constraints, filp, work, notify, caller, uc, panic, last >>

\* pm_qos_update_request as far as spin_lock_irqsave
LockUpdate(r, new_value) ==
  /\ OwnerMayCall(r)
  /\ pm_qos_request_active(r)
  /\ new_value # req[r].prio
  /\ cs' = [action |-> "PM_QOS_UPDATE_REQ", req |-> r,
            class |-> req[r].pm_qos_class, value |-> new_value]
  /\ pm_qos_lock' = r
  /\ UNCHANGED << constraints, req, filp, work, notify, caller, uc, panic, last >>

\* pm_qos_remove_request as far as spin_lock_irqsave
LockRemove(r) ==
  /\ OwnerMayCall(r)
  /\ pm_qos_request_active(r)
  /\ cs' = [action |-> "PM_QOS_REMOVE_REQ", req |-> r,
            class |-> req[r].pm_qos_class, value |-> PM_QOS_DEFAULT_VALUE]
  /\ pm_qos_lock' = r
  /\ UNCHANGED << constraints, req, filp, work, notify, caller, uc, panic, last >>

\* the critical section of pm_qos_update_target, spin_unlock_irqrestore and
\* the rest of the call (the memset of pm_qos_remove_request with it)
CriticalSection ==
  /\ pm_qos_lock # 0
  /\ \E u \in pm_qos_update_target(constraints, req, cs.class, cs.req,
                                    cs.action, cs.value) :
        /\ constraints' = u.cons
        /\ req' = IF cs.action = "PM_QOS_REMOVE_REQ" /\ u.panic = "none"
                  THEN [u.req EXCEPT ![cs.req] = ZeroReq] ELSE u.req
        /\ panic' = u.panic
        /\ Did(cs.action, cs.req, cs.class, u.calls)
  /\ pm_qos_lock' = 0
  /\ cs' = NoCs
  /\ UNCHANGED << filp, work, notify, caller, uc >>

\* what a caller of pm_qos_update_constraints passes: a field that is zero
\* is left as it is
UcInputs ==
  { [target_value |-> MaxVal, default_value |-> MaxVal, type |-> "PM_QOS_MAX",
     notifiers |-> "new_notifier"],
    [target_value |-> MaxVal, default_value |-> 0,
     type |-> "PM_QOS_UNITIALIZED", notifiers |-> "NULL"] }

\* pm_qos_update_constraints(pm_qos_class, constraints) finds the class
UcCall(k, new) ==
  /\ uc = NoUc
  /\ uc' = [pc |-> "target_value", class |-> k, new |-> new]
  /\ UNCHANGED << constraints, req, filp, work, notify, caller, pm_qos_lock,
                  cs, panic, last >>

\* its next write; it takes no lock
UcWrite ==
  /\ uc.pc # "none"
  /\ LET k == uc.class
         n == uc.new
     IN CASE uc.pc = "target_value" ->
               /\ constraints' =
                    IF n.target_value # 0
                    THEN [constraints EXCEPT ![k].target_value = n.target_value]
                    ELSE constraints
               /\ uc' = [uc EXCEPT !.pc = "default_value"]
          [] uc.pc = "default_value" ->
               /\ constraints' =
                    IF n.default_value # 0
                    THEN [constraints EXCEPT ![k].default_value = n.default_value]
                    ELSE constraints
               /\ uc' = [uc EXCEPT !.pc = "type"]
          [] uc.pc = "type" ->
               /\ constraints' =
                    IF n.type # "PM_QOS_UNITIALIZED"
                    THEN [constraints EXCEPT ![k].type = n.type]
                    ELSE constraints
               /\ uc' = [uc EXCEPT !.pc = "notifiers"]
          [] uc.pc = "notifiers" ->
               /\ constraints' =
                    IF n.notifiers # "NULL"
                    THEN [constraints EXCEPT ![k].notifiers = n.notifiers]
                    ELSE constraints
               /\ uc' = NoUc
  /\ UNCHANGED << req, filp, work, notify, caller, pm_qos_lock, cs, panic, last >>

NextLock ==
  /\ panic = "none"
  /\ UNCHANGED otherVars
  /\ \/ \E r \in Reqs :
          \/ LockAdd(r)
          \/ \E value \in InValues : LockUpdate(r, value)
          \/ LockRemove(r)
     \/ CriticalSection
     \/ \E k \in LockClasses, new \in UcInputs : UcCall(k, new)
     \/ UcWrite

SpecLock == Init /\ [][NextLock]_vars

\* ------------------------------------------------------ pm_qos_update_flags
\* list_for_each_entry(req, &pqf->list, node) val |= req->flags
RECURSIVE flags_of_list(_, _)
flags_of_list(list, fl) ==
  IF list = << >> THEN 0
  ELSE BitOr(fl[Head(list)], flags_of_list(Tail(list), fl))

\* a pm_qos_flags_remove_req that did not compute the flags again
flags_remove_req_keep(p, fl, r) ==
  [p EXCEPT !.list = SelectSeq(p.list, LAMBDA x : x # r)]

\* pm_qos_flags_remove_req(pqf, req)
pm_qos_flags_remove_req(p, fl, r) ==
  [list |-> SelectSeq(p.list, LAMBDA x : x # r),
   effective_flags |-> flags_of_list(SelectSeq(p.list, LAMBDA x : x # r), fl)]

\* list_empty(&pqf->list) ? 0 : pqf->effective_flags
flags_value(p) == IF p.list = << >> THEN 0 ELSE p.effective_flags

\* req->flags = val; list_add_tail(&req->node, &pqf->list);
\* pqf->effective_flags |= val
flags_add_req(p, r, val) ==
  [list |-> Append(p.list, r), effective_flags |-> BitOr(p.effective_flags, val)]

\* pm_qos_update_flags(pqf, req, action, val): the outcome of the call, as a
\* set of one element
pm_qos_update_flags(p, fl, r, action, val) ==
  { [pqf |-> p1,
     flags |-> IF action = "PM_QOS_REMOVE_REQ" THEN fl ELSE [fl EXCEPT ![r] = val],
     ret |-> flags_value(p) # flags_value(p1)]
    : p1 \in { CASE action = "PM_QOS_REMOVE_REQ" -> pm_qos_flags_remove_req(p, fl, r)
                 [] action = "PM_QOS_UPDATE_REQ" ->
                      flags_add_req(pm_qos_flags_remove_req(p, fl, r), r, val)
                 [] action = "PM_QOS_ADD_REQ" -> flags_add_req(p, r, val) } }

InFlagsList(r) == \E i \in 1 .. Len(pqf.list) : pqf.list[i] = r

\* a caller of pm_qos_update_flags: it adds a request that is not in the set,
\* and updates or removes one that is
UpdateFlags(r, action, val) ==
  /\ (action = "PM_QOS_ADD_REQ") = ~InFlagsList(r)
  /\ \E u \in pm_qos_update_flags(pqf, flags_req, r, action, val) :
        /\ pqf' = u.pqf
        /\ flags_req' = u.flags
        /\ flags_last' = [action |-> action, req |-> r, ret |-> u.ret,
                          list |-> pqf.list, flags |-> flags_req]

NextFlags ==
  /\ UNCHANGED << qosVars, syncVars, mostVars, consoleVars >>
  /\ \E r \in FlagReqs :
       \/ \E val \in FlagVals : UpdateFlags(r, "PM_QOS_ADD_REQ", val)
       \/ \E val \in FlagVals : UpdateFlags(r, "PM_QOS_UPDATE_REQ", val)
       \/ UpdateFlags(r, "PM_QOS_REMOVE_REQ", 0)

SpecFlags == Init /\ [][NextFlags]_vars

\* ---------------------------------------------------------------- intr_sync
\* pm_get_wakeup_count(&cnt, false): the count of wakeup events, and whether
\* none is in progress
pm_get_wakeup_count(w) == [cnt |-> w.cnt, ok |-> ~w.inpr]

\* __prepare_wakeup_event(wd)
__prepare_wakeup_event(w) ==
  IF pm_get_wakeup_count(w).ok THEN "0" ELSE "-EBUSY"

\* a __check_wakeup_event that saw no event
check_wakeup_event_blind(w, wd) == "0"

\* __check_wakeup_event(wd)
__check_wakeup_event(w, wd) ==
  IF pm_get_wakeup_count(w).ok /\ pm_get_wakeup_count(w).cnt = wd
  THEN "0" ELSE "-EBUSY"

\* an intr_sync that registered on a work whatever its state
may_register_always(state) == TRUE

\* intr_sync: if (sync_work->state == INTR_SYNC_STATE_RUNNING) goto find_idle
may_register(state) == state # "INTR_SYNC_STATE_RUNNING"

\* an intr_sync that left its loop at the first timeout
work_has_done_or_timeout(ret, version, work_ver) == TRUE

\* intr_sync: if ((ret > 0) || (sync_work->version != work_ver)) break
work_has_done(ret, version, work_ver) == ret > 0 \/ version # work_ver

\* a thread calls intr_sync(sync_ret)
SyncCall(t) ==
  /\ thread[t].pc = "out"
  /\ sys_sync.calls < MaxCalls
  /\ sys_sync' = [sys_sync EXCEPT !.calls = @ + 1]
  /\ thread' = [thread EXCEPT ![t] =
                  [NoThread EXCEPT !.pc = IF intr_sync_wq # "NULL"
                                         THEN "find_idle" ELSE "alloc"]]
  /\ UNCHANGED << intr_sync_wq, running_work_idx, intr_sync_work, wq_queue,
                  worker, wakeup >>

\* intr_sync from mutex_lock(&intr_sync_wq_lock) on: the workqueue is created
\* if there is none (ok: alloc_ordered_workqueue succeeds); without a
\* workqueue the caller calls sys_sync() itself and returns 0
SyncAlloc(t, ok) ==
  /\ thread[t].pc = "alloc"
  /\ (intr_sync_wq # "NULL") => ok
  /\ intr_sync_wq' = IF ok THEN "wq" ELSE "NULL"
  /\ thread' = [thread EXCEPT ![t] =
                  IF ok THEN [@ EXCEPT !.pc = "find_idle"]
                  ELSE [@ EXCEPT !.pc = "out", !.ret = "0", !.path = "sys_sync"]]
  /\ UNCHANGED << running_work_idx, intr_sync_work, wq_queue, worker, wakeup,
                  sys_sync >>

\* find_idle: work_idx = !atomic_read(&running_work_idx)
SyncFindIdle(t) ==
  /\ thread[t].pc = "find_idle"
  /\ thread' = [thread EXCEPT ![t].pc = "prepare",
                              ![t].work_idx = 1 - running_work_idx]
  /\ UNCHANGED << intr_sync_wq, running_work_idx, intr_sync_work, wq_queue,
                  worker, wakeup, sys_sync >>

\* if (__prepare_wakeup_event(&wd)) return -EBUSY
SyncPrepare(t) ==
  /\ thread[t].pc = "prepare"
  /\ thread' = [thread EXCEPT ![t] =
       IF __prepare_wakeup_event(wakeup) = "0"
       THEN [@ EXCEPT !.pc = "lock", !.wd = pm_get_wakeup_count(wakeup).cnt,
                      !.seen = wakeup]
       ELSE [@ EXCEPT !.pc = "out", !.ret = "-EBUSY", !.path = "prepare",
                      !.seen = wakeup]]
  /\ UNCHANGED << intr_sync_wq, running_work_idx, intr_sync_work, wq_queue,
                  worker, wakeup, sys_sync >>

\* the critical section of intr_sync on sync_work->lock: the caller goes back
\* to find_idle, or registers as a waiter and enqueues an idle work
SyncLock(t) ==
  /\ thread[t].pc = "lock"
  /\ \E i \in {thread[t].work_idx} : \E w \in {intr_sync_work[i]} :
       IF ~may_register(w.state)
       THEN /\ thread' = [thread EXCEPT ![t].pc = "find_idle",
                                        ![t].work_ver = w.version]
            /\ UNCHANGED << intr_sync_work, wq_queue >>
       ELSE /\ thread' = [thread EXCEPT ![t].pc = "check",
                                        ![t].work_ver = w.version,
                                        ![t].reg_state = w.state,
                                        ![t].reg_sync = sys_sync.started]
            /\ intr_sync_work' = [intr_sync_work EXCEPT ![i] =
                 IF w.state = "INTR_SYNC_STATE_IDLE"
                 THEN [w EXCEPT !.waiter = @ + 1,
                                !.state = "INTR_SYNC_STATE_QUEUED",
                                !.done = FALSE]
                 ELSE [w EXCEPT !.waiter = @ + 1]]
            /\ wq_queue' = IF w.state = "INTR_SYNC_STATE_IDLE"
                           THEN Append(wq_queue, i) ELSE wq_queue
  /\ UNCHANGED << intr_sync_wq, running_work_idx, worker, wakeup, sys_sync >>

\* the check at the head of the loop: on a wakeup event the caller takes its
\* count off the work and returns -EBUSY
SyncCheck(t) ==
  /\ thread[t].pc = "check"
  /\ IF __check_wakeup_event(wakeup, thread[t].wd) = "0"
     THEN /\ thread' = [thread EXCEPT ![t].pc = "wait", ![t].seen = wakeup]
          /\ UNCHANGED intr_sync_work
     ELSE /\ thread' = [thread EXCEPT ![t].pc = "out", ![t].ret = "-EBUSY",
                                      ![t].path = "check", ![t].seen = wakeup]
          /\ intr_sync_work' =
               [intr_sync_work EXCEPT ![thread[t].work_idx].waiter = @ - 1]
  /\ UNCHANGED << intr_sync_wq, running_work_idx, wq_queue, worker, wakeup,
                  sys_sync >>

\* wait_for_completion_io_timeout(&sync_work->done, HZ/10) returns: positive
\* when the completion is done, 0 at the timeout; then the test of the loop
SyncWait(t) ==
  /\ thread[t].pc = "wait"
  /\ \E w \in {intr_sync_work[thread[t].work_idx]} :
       thread' = [thread EXCEPT ![t].pc =
         IF work_has_done(IF w.done THEN 1 ELSE 0, w.version, thread[t].work_ver)
         THEN "finish" ELSE "check"]
  /\ UNCHANGED << intr_sync_wq, running_work_idx, intr_sync_work, wq_queue,
                  worker, wakeup, sys_sync >>

\* after the loop: sync_work->waiter--, return 0
SyncFinish(t) ==
  /\ thread[t].pc = "finish"
  /\ thread' = [thread EXCEPT ![t].pc = "out", ![t].ret = "0",
                              ![t].path = "workqueue"]
  /\ intr_sync_work' =
       [intr_sync_work EXCEPT ![thread[t].work_idx].waiter = @ - 1]
  /\ UNCHANGED << intr_sync_wq, running_work_idx, wq_queue, worker, wakeup,
                  sys_sync >>

\* do_intr_sync(work), its first critical section; the ordered workqueue runs
\* one work at a time, in the order they were queued
WorkStart ==
  /\ worker.pc = "idle"
  /\ wq_queue # << >>
  /\ \E i \in {Head(wq_queue)} :
       /\ running_work_idx' = i
       /\ intr_sync_work' =
            [intr_sync_work EXCEPT ![i].state = "INTR_SYNC_STATE_RUNNING"]
       /\ worker' = [pc |-> "started", work |-> i,
                     waiter |-> intr_sync_work[i].waiter]
  /\ wq_queue' = Tail(wq_queue)
  /\ UNCHANGED << intr_sync_wq, thread, wakeup, sys_sync >>

\* if (waiter) ret = sys_sync(): the call begins, or is left out
WorkSync ==
  /\ worker.pc = "started"
  /\ IF worker.waiter # 0
     THEN /\ worker' = [worker EXCEPT !.pc = "sys_sync"]
          /\ sys_sync' = [sys_sync EXCEPT !.started = @ + 1]
     ELSE /\ worker' = [worker EXCEPT !.pc = "finish"]
          /\ UNCHANGED sys_sync
  /\ UNCHANGED << intr_sync_wq, running_work_idx, intr_sync_work, wq_queue,
                  thread, wakeup >>

\* sys_sync() returns
WorkSyncDone ==
  /\ worker.pc = "sys_sync"
  /\ worker' = [worker EXCEPT !.pc = "finish"]
  /\ sys_sync' = [sys_sync EXCEPT !.done = @ + 1]
  /\ UNCHANGED << intr_sync_wq, running_work_idx, intr_sync_work, wq_queue,
                  thread, wakeup >>

\* do_intr_sync, its second critical section
WorkFinish ==
  /\ worker.pc = "finish"
  /\ intr_sync_work' = [intr_sync_work EXCEPT ![worker.work] =
       [@ EXCEPT !.version = @ + 1, !.state = "INTR_SYNC_STATE_IDLE",
                 !.done = TRUE]]
  /\ worker' = [pc |-> "idle", work |-> 0, waiter |-> 0]
  /\ UNCHANGED << intr_sync_wq, running_work_idx, wq_queue, thread, wakeup,
                  sys_sync >>

\* a wakeup event begins
WakeupBegin ==
  /\ ~wakeup.inpr
  /\ wakeup.cnt < MaxWakeups
  /\ wakeup' = [wakeup EXCEPT !.inpr = TRUE]
  /\ UNCHANGED << intr_sync_wq, running_work_idx, intr_sync_work, wq_queue,
                  worker, thread, sys_sync >>

\* it has been handled, and is counted
WakeupEnd ==
  /\ wakeup.inpr
  /\ wakeup' = [cnt |-> wakeup.cnt + 1, inpr |-> FALSE]
  /\ UNCHANGED << intr_sync_wq, running_work_idx, intr_sync_work, wq_queue,
                  worker, thread, sys_sync >>

NextSync ==
  /\ UNCHANGED << qosVars, flagsVars, mostVars, consoleVars >>
  /\ \/ \E t \in Threads :
          \/ SyncCall(t)
          \/ \E ok \in BOOLEAN : SyncAlloc(t, ok)
          \/ SyncFindIdle(t)
          \/ SyncPrepare(t)
          \/ SyncLock(t)
          \/ SyncCheck(t)
          \/ SyncWait(t)
          \/ SyncFinish(t)
     \/ WorkStart
     \/ WorkSync
     \/ WorkSyncDone
     \/ WorkFinish
     \/ WakeupBegin
     \/ WakeupEnd

SpecSync == Init /\ [][NextSync]_vars

\* ---------------------------------------------------------------- hdm_i2c
\* The MOST core calls configure_channel, enqueue and poison_channel from one
\* thread: it stops its enqueue thread before it poisons a channel.  The RX
\* work runs on a system workqueue and the interrupt handler in interrupt
\* context, both beside that thread.  Every critical section of
\* rx.list_mutex is one step.  A BUG_ON halts the machine: the condition it
\* tests is the guard of the action.

\* queue_delayed_work on rx.dwork: nothing to do when the work is pending
queue_rx_dwork(w) == [w EXCEPT !.pending = TRUE]

\* data_size = pml + 2, a u16
rx_data_size(pml) == (pml + 2) % 65536

\* processed_length = min(data_size, mbo->buffer_length)
rx_processed_length(data_size, buffer_length) ==
  IF data_size < buffer_length THEN data_size ELSE buffer_length

\* pending_rx_work enables the line only in the else of if (polling_mode)
enable_never(polling_mode) == FALSE

enable_after_rx(polling_mode) == ~polling_mode

\* enable_irq: the depth goes down by one; at depth 0 the kernel warns of an
\* unbalanced enable and leaves the depth
enable_irq(i) ==
  IF i.depth = 0
    THEN [i EXCEPT !.unbalanced = TRUE, !.enables = @ + 1]
    ELSE [i EXCEPT !.depth = @ - 1, !.enables = @ + 1]

\* i2c_probe: the device is set up with both channels closed and an empty
\* list; it polls if polling was asked for, the client has no irq or
\* request_irq fails
I2cProbe(polling_req, irq_ok) ==
  /\ ~dev.probed
  /\ dev' = [probed |-> TRUE, is_open |-> [c \in Channels |-> FALSE],
             polling_mode |-> (polling_req \/ ~irq_ok), rx_list |-> << >>]
  /\ UNCHANGED << mbo, rx_work, irq, core >>

\* configure_channel: -EPERM for a bad data type or direction; else the RX
\* channel of a polling device queues the work, and the channel is open
ConfigureChannel(ch, good) ==
  /\ dev.probed
  /\ core.pc = "idle"
  /\ ~dev.is_open[ch]
  /\ IF ~good
       THEN /\ core' = [core EXCEPT !.ret = "-EPERM"]
            /\ UNCHANGED << dev, rx_work >>
       ELSE /\ rx_work' = IF ch = CH_RX /\ dev.polling_mode
                            THEN queue_rx_dwork(rx_work) ELSE rx_work
            /\ dev' = [dev EXCEPT !.is_open[ch] = TRUE]
            /\ core' = [core EXCEPT !.ret = "0",
                          !.returned = IF ch = CH_RX THEN FALSE ELSE @,
                          !.waiting = IF ch = CH_RX THEN {} ELSE @]
  /\ UNCHANGED << mbo, irq >>

\* enqueue: an RX buffer goes to the tail of the list; a TX buffer is sent
\* and completed at once
Enqueue(ch, m, len, sent) ==
  /\ dev.probed
  /\ core.pc = "idle"
  /\ dev.is_open[ch]
  /\ mbo[m].state = "core"
  /\ IF ch = CH_RX
       THEN /\ dev' = [dev EXCEPT !.rx_list = Append(@, m)]
            /\ mbo' = [mbo EXCEPT ![m] = [NoMbo EXCEPT !.state = "list",
                                            !.buffer_length = len]]
       ELSE /\ mbo' = [mbo EXCEPT ![m] =
                 [state |-> "done", buffer_length |-> len,
                  processed_length |-> IF sent THEN len ELSE 0,
                  status |-> IF sent THEN "MBO_SUCCESS" ELSE "MBO_E_INVAL",
                  by |-> "enqueue"]]
            /\ UNCHANGED dev
  /\ core' = [core EXCEPT !.ret = "0"]
  /\ UNCHANGED << rx_work, irq >>

\* poison_channel, up to the first mutex_lock: the channel is closed; for
\* the TX channel that is all
PoisonChannel(ch) ==
  /\ dev.probed
  /\ core.pc = "idle"
  /\ dev.is_open[ch]
  /\ dev' = [dev EXCEPT !.is_open[ch] = FALSE]
  /\ core' = IF ch = CH_RX
               THEN [core EXCEPT !.pc = "drain", !.returned = FALSE,
                       !.waiting = {dev.rx_list[i] : i \in 1 .. Len(dev.rx_list)}]
               ELSE [core EXCEPT !.ret = "0"]
  /\ UNCHANGED << mbo, rx_work, irq >>

\* one turn of its loop under the mutex: the first buffer is taken off the
\* list, or the list is empty and poison_channel returns
PoisonDrain ==
  /\ core.pc = "drain"
  /\ IF dev.rx_list = << >>
       THEN /\ core' = [core EXCEPT !.pc = "idle", !.returned = TRUE,
                          !.ret = "0"]
            /\ UNCHANGED << dev, mbo >>
       ELSE /\ core' = [core EXCEPT !.pc = "complete",
                          !.cur = Head(dev.rx_list)]
            /\ dev' = [dev EXCEPT !.rx_list = Tail(@)]
            /\ mbo' = [mbo EXCEPT ![Head(dev.rx_list)].state = "hdm",
                                  ![Head(dev.rx_list)].by = "poison"]
  /\ UNCHANGED << rx_work, irq >>

\* outside the mutex the buffer is completed with MBO_E_CLOSE
PoisonComplete ==
  /\ core.pc = "complete"
  /\ mbo' = [mbo EXCEPT ![core.cur].processed_length = 0,
                        ![core.cur].status = "MBO_E_CLOSE",
                        ![core.cur].state = "done"]
  /\ core' = [core EXCEPT !.pc = "drain", !.cur = 0]
  /\ UNCHANGED << dev, rx_work, irq >>

\* most_irq_handler, entered while the line is enabled: disable_irq_nosync
\* and queue_delayed_work
MostIrqHandler ==
  /\ dev.probed
  /\ ~dev.polling_mode
  /\ irq.depth = 0
  /\ irq.disables < MaxIrq
  /\ irq' = [irq EXCEPT !.depth = @ + 1, !.disables = @ + 1]
  /\ rx_work' = queue_rx_dwork(rx_work)
  /\ UNCHANGED << dev, mbo, core >>

\* the workqueue starts pending_rx_work; a work item does not run twice at
\* a time
PendingRxWork ==
  /\ rx_work.pending
  /\ rx_work.pc = "idle"
  /\ rx_work' = [rx_work EXCEPT !.pending = FALSE, !.pc = "pml",
                                !.data_size = 0, !.cur = 0, !.enabled = 0]
  /\ UNCHANGED << dev, mbo, irq, core >>

\* do_rx_work: the PML is read; a failure or a PML of 0 ends do_rx_work
DoRxRecvPml(ok, pml) ==
  /\ rx_work.pc = "pml"
  /\ rx_work' = IF ~ok \/ pml = 0
                  THEN [rx_work EXCEPT !.pc = "tail"]
                  ELSE [rx_work EXCEPT !.pc = "msg",
                                       !.data_size = rx_data_size(pml)]
  /\ UNCHANGED << dev, mbo, irq, core >>

\* the whole message is read
DoRxRecvMsg(ok) ==
  /\ rx_work.pc = "msg"
  /\ rx_work' = [rx_work EXCEPT !.pc = IF ok THEN "wait" ELSE "tail"]
  /\ UNCHANGED << dev, mbo, irq, core >>

\* wait_event_interruptible until the channel is closed or a buffer is in
\* the list; it may fail
DoRxWait(fail) ==
  /\ rx_work.pc = "wait"
  /\ IF fail
       THEN rx_work' = [rx_work EXCEPT !.pc = "tail"]
       ELSE /\ ~dev.is_open[CH_RX] \/ dev.rx_list # << >>
            /\ rx_work' = [rx_work EXCEPT !.pc = "open"]
  /\ UNCHANGED << dev, mbo, irq, core >>

\* if (!dev->is_open[ch_idx]) return
DoRxCheckOpen ==
  /\ rx_work.pc = "open"
  /\ rx_work' = [rx_work EXCEPT !.pc = IF dev.is_open[CH_RX] THEN "lock"
                                                             ELSE "tail"]
  /\ UNCHANGED << dev, mbo, irq, core >>

\* under the mutex: the first buffer is taken off the list, or the list is
\* empty and the work waits again
DoRxTake ==
  /\ rx_work.pc = "lock"
  /\ IF dev.rx_list = << >>
       THEN /\ rx_work' = [rx_work EXCEPT !.pc = "wait"]
            /\ UNCHANGED << dev, mbo >>
       ELSE /\ rx_work' = [rx_work EXCEPT !.pc = "copy",
                                          !.cur = Head(dev.rx_list)]
            /\ dev' = [dev EXCEPT !.rx_list = Tail(@)]
            /\ mbo' = [mbo EXCEPT ![Head(dev.rx_list)].state = "hdm",
                                  ![Head(dev.rx_list)].by = "rx"]
  /\ UNCHANGED << irq, core >>

\* the message is copied and the buffer completed with MBO_SUCCESS
DoRxComplete ==
  /\ rx_work.pc = "copy"
  /\ mbo' = [mbo EXCEPT
       ![rx_work.cur].processed_length =
          rx_processed_length(rx_work.data_size, mbo[rx_work.cur].buffer_length),
       ![rx_work.cur].status = "MBO_SUCCESS",
       ![rx_work.cur].state = "done"]
  /\ rx_work' = [rx_work EXCEPT !.pc = "tail"]
  /\ UNCHANGED << dev, irq, core >>

\* pending_rx_work after do_rx_work: a polling device queues the work again
\* while the RX channel is open, an interrupt device enables the line
PendingRxWorkTail ==
  /\ rx_work.pc = "tail"
  /\ IF enable_after_rx(dev.polling_mode)
       THEN /\ irq' = enable_irq(irq)
            /\ rx_work' = [rx_work EXCEPT !.pc = "ret", !.enabled = @ + 1]
       ELSE /\ rx_work' =
                 IF dev.polling_mode /\ dev.is_open[CH_RX]
                   THEN [queue_rx_dwork(rx_work) EXCEPT !.pc = "ret"]
                   ELSE [rx_work EXCEPT !.pc = "ret"]
            /\ UNCHANGED irq
  /\ UNCHANGED << dev, mbo, core >>

\* pending_rx_work returns
PendingRxWorkReturn ==
  /\ rx_work.pc = "ret"
  /\ rx_work' = [rx_work EXCEPT !.pc = "idle"]
  /\ UNCHANGED << dev, mbo, irq, core >>

NextMost ==
  /\ UNCHANGED << qosVars, flagsVars, syncVars, consoleVars >>
  /\ \/ \E polling_req \in BOOLEAN, irq_ok \in BOOLEAN :
          I2cProbe(polling_req, irq_ok)
     \/ \E ch \in Channels, good \in BOOLEAN : ConfigureChannel(ch, good)
     \/ \E ch \in Channels, m \in Mbos, len \in BufLens, sent \in BOOLEAN :
          Enqueue(ch, m, len, sent)
     \/ \E ch \in Channels : PoisonChannel(ch)
     \/ PoisonDrain
     \/ PoisonComplete
     \/ MostIrqHandler
     \/ PendingRxWork
     \/ \E ok \in BOOLEAN, pml \in 0 .. MaxPml : DoRxRecvPml(ok, pml)
     \/ \E ok \in BOOLEAN : DoRxRecvMsg(ok)
     \/ \E fail \in BOOLEAN : DoRxWait(fail)
     \/ DoRxCheckOpen
     \/ DoRxTake
     \/ DoRxComplete
     \/ PendingRxWorkTail
     \/ PendingRxWorkReturn

SpecMost == Init /\ [][NextMost]_vars

\* ---------------------------------------------------- liquidio console
\* a u32 holds 0 .. U32 - 1; an int or s32 holds the same bits read as a
\* two's complement number
U32 == 2 ^ WordBits
Words == 0 .. (U32 - 1)
ConsoleNums == 0 .. MaxConsoles

to_u32(x) == x % U32

to_s32(x) == IF x % U32 >= U32 \div 2 THEN (x % U32) - U32 ELSE x % U32

\* MIN(a, b) is min((a), (b)), here of two ints
MIN(a, b) == IF a < b THEN a ELSE b

\* octeon_console_free_bytes: u32 arithmetic, returned as int
octeon_console_free_bytes(buffer_size, wr_idx, rd_idx) ==
  IF rd_idx >= buffer_size \/ wr_idx >= buffer_size
    THEN -1
    ELSE to_s32(to_u32(to_u32(buffer_size - 1) - to_u32(wr_idx - rd_idx))
                  % buffer_size)

\* octeon_console_avail_bytes
octeon_console_avail_bytes(buffer_size, wr_idx, rd_idx) ==
  IF rd_idx >= buffer_size \/ wr_idx >= buffer_size
    THEN -1
    ELSE to_s32(to_u32(buffer_size - 1)
                  - octeon_console_free_bytes(buffer_size, wr_idx, rd_idx))

\* if (rd_idx + bytes_to_read >= console->buffer_size)
\*         bytes_to_read = console->buffer_size - rd_idx;
\* the sum and the difference are u32, bytes_to_read an int
contiguous_bytes(buffer_size, rd_idx, bytes_to_read) ==
  IF to_u32(rd_idx + bytes_to_read) >= buffer_size
    THEN to_s32(buffer_size - rd_idx)
    ELSE bytes_to_read

\* octeon_console_read of a console below num_consoles with bytes available:
\* the bytes it reads from output_base_addr + rd_idx, the length it hands to
\* octeon_pci_read_core_mem (a u32), the index it writes and its result
console_read_some(call, avail) ==
  { [call EXCEPT !.avail = avail, !.ret = n, !.copied = TRUE,
                 !.len = to_u32(n),
                 !.index = to_u32(call.rd_idx + n) % call.buffer_size]
      : n \in {contiguous_bytes(call.buffer_size, call.rd_idx,
                                MIN(avail, to_s32(call.buf_size)))} }

\* with the indexes read from device memory
console_read_avail(call) ==
  UNION { IF avail <= 0
            THEN {[call EXCEPT !.avail = avail, !.ret = avail]}
            ELSE console_read_some(call, avail)
          : avail \in {octeon_console_avail_bytes(call.buffer_size,
                                                  call.wr_idx, call.rd_idx)} }

\* octeon_console_read(oct, console_num, buffer, buf_size, flags): the set
\* holding the record of the call
octeon_console_read(o, pci, console_num, buf_size) ==
  IF console_num >= o.num_consoles
    THEN {[NoRead EXCEPT !.called = TRUE, !.console_num = console_num,
                         !.buf_size = buf_size,
                         !.num_consoles = o.num_consoles,
                         !.index = pci.output_read_index]}
    ELSE console_read_avail(
           [NoRead EXCEPT !.called = TRUE, !.console_num = console_num,
                          !.buf_size = buf_size,
                          !.num_consoles = o.num_consoles,
                          !.buffer_size = o.buffer_size,
                          !.rd_idx = pci.output_read_index,
                          !.wr_idx = pci.output_write_index,
                          !.index = pci.output_read_index])

\* octeon_init_consoles: num_consoles is read from device memory
OcteonInitConsoles(n) ==
  /\ oct.num_consoles = 0
  /\ oct' = [oct EXCEPT !.num_consoles = n]
  /\ console_read' = NoRead
  /\ UNCHANGED pci_console

\* octeon_add_console: the console's buffer_size is read from device memory
OcteonAddConsole(console_num, buf_size) ==
  /\ console_num < oct.num_consoles
  /\ ~oct.active
  /\ oct' = [oct EXCEPT !.buffer_size = buf_size, !.active = TRUE]
  /\ console_read' = NoRead
  /\ UNCHANGED pci_console

\* octeon_remove_consoles
OcteonRemoveConsoles ==
  /\ oct.num_consoles > 0
  /\ oct' = [num_consoles |-> 0, active |-> FALSE, buffer_size |-> 0]
  /\ console_read' = NoRead
  /\ UNCHANGED pci_console

\* device memory holds any two words as the indexes of a console the host
\* has not added yet
DeviceInit(rd_idx, wr_idx) ==
  /\ ~oct.active
  /\ pci_console' = [output_read_index |-> rd_idx,
                     output_write_index |-> wr_idx]
  /\ pci_console' # pci_console
  /\ console_read' = NoRead
  /\ UNCHANGED oct

\* the firmware of the device writes output_write_index
DeviceWrite(wr_idx) ==
  /\ oct.active
  /\ wr_idx # pci_console.output_write_index
  /\ pci_console' = [pci_console EXCEPT !.output_write_index = wr_idx]
  /\ console_read' = NoRead
  /\ UNCHANGED oct

\* a call of octeon_console_read
OcteonConsoleRead(console_num, buf_size) ==
  /\ \E call \in octeon_console_read(oct, pci_console, console_num, buf_size) :
        /\ console_read' = call
        /\ pci_console' = [pci_console EXCEPT !.output_read_index = call.index]
  /\ UNCHANGED oct

NextConsole ==
  /\ UNCHANGED << qosVars, flagsVars, syncVars, mostVars >>
  /\ \/ \E n \in 1 .. MaxConsoles : OcteonInitConsoles(n)
     \/ \E console_num \in ConsoleNums, buf_size \in Words :
          OcteonAddConsole(console_num, buf_size)
     \/ OcteonRemoveConsoles
     \/ \E rd_idx \in Words, wr_idx \in Words : DeviceInit(rd_idx, wr_idx)
     \/ \E wr_idx \in Words : DeviceWrite(wr_idx)
     \/ \E console_num \in ConsoleNums, buf_size \in Words :
          OcteonConsoleRead(console_num, buf_size)

SpecConsole == Init /\ [][NextConsole]_vars

\* ================================================================ claims
InList(k) == {constraints[k].list[i] : i \in 1 .. Len(constraints[k].list)}
StoredValues(k) == {req[r].prio : r \in InList(k)}
MinOf(S) == CHOOSE x \in S : \A y \in S : x <= y
MaxOf(S) == CHOOSE x \in S : \A y \in S : x >= y

RECURSIVE SumOver(_)
SumOver(S) ==
  IF S = {} THEN 0
  ELSE LET r == CHOOSE x \in S : TRUE IN req[r].prio + SumOver(S \ {r})

TypeOf(k) == constraints[k].type
AsInitialised(k) == constraints[k] = pm_qos_array[k]

C2_SumCompletes ==
  \A k \in Classes :
    TypeOf(k) = "PM_QOS_SUM" =>
      /\ \A i \in 1 .. Len(last.calls) :
           last.calls[i].class = k => last.calls[i].returned
      /\ pm_qos_request(k) = SumOver(InList(k))

C4_ReturnsOneIffChanged ==
  \A i \in 1 .. Len(last.calls) :
    LET call == last.calls[i]
    IN call.returned =>
         call.ret = IF call.prev_value # call.curr_value THEN 1 ELSE 0

\* the default_value of class k and the values of its requests that hold cpu
AffineValues(k, cpu) ==
  {constraints[k].default_value}
    \cup {req[r].prio : r \in {x \in InList(k) : cpu \in req[x].cpus_affine}}

\* C5: in a class of type MIN or MAX, pm_qos_request_for_cpu(class, c) is the
\* minimum (MIN) or maximum (MAX) over the default_value and the values of
\* the requests whose cpus_affine holds c.
C5_PerCpuIsExtremum ==
  \A k \in Classes : \A cpu \in CPUS :
    /\ TypeOf(k) = "PM_QOS_MIN" =>
         pm_qos_request_for_cpu(k, cpu) = MinOf(AffineValues(k, cpu))
    /\ TypeOf(k) = "PM_QOS_MAX" =>
         pm_qos_request_for_cpu(k, cpu) = MaxOf(AffineValues(k, cpu))

\* a MIN class where one CPU is constrained by a request and the other, in no
\* request's mask, keeps the default
C5_Witness ==
  \E k \in Classes :
    /\ TypeOf(k) = "PM_QOS_MIN"
    /\ Len(constraints[k].list) = 2
    /\ pm_qos_request_for_cpu(k, 0) < constraints[k].default_value
    /\ pm_qos_request_for_cpu(k, 1) = constraints[k].default_value
    /\ \A r \in InList(k) : 1 \notin req[r].cpus_affine
    /\ last.op = "update"

\* C7 (as claimed): the requests of a class that an open of its device node
\* has allocated are as many as the open handles of that node.
C7_OneRequestPerOpenHandle ==
  \A k \in Classes :
    Cardinality({r \in InList(k) : filp[r].node = k})
      = Cardinality({r \in Reqs : filp[r].node = k /\ filp[r].opened})

\* the aggregate of the requests in the list of class k, by the type of k
Aggregate(k) ==
  IF InList(k) = {} THEN constraints[k].no_constraint_value
  ELSE CASE TypeOf(k) = "PM_QOS_MIN" -> MinOf(StoredValues(k))
         [] TypeOf(k) \in {"PM_QOS_MAX", "PM_QOS_FORCE_MAX"} -> MaxOf(StoredValues(k))
         [] TypeOf(k) = "PM_QOS_SUM" -> SumOver(InList(k))

\* C8: pm_qos_remove_request on an active request leaves it in no list, the
\* target of its class the aggregate of the requests that remain, and the
\* handle zeroed: inactive, so that pm_qos_add_request accepts it again.
C8_RemoveLeavesInactive ==
  last.op = "remove" =>
    /\ \A k \in Classes : last.req \notin InList(k)
    /\ pm_qos_request(last.class) = Aggregate(last.class)
    /\ ~pm_qos_request_active(last.req)
    /\ req[last.req] = ZeroReq

\* the removed request held the extremum, and another request remains
C8_Witness ==
  /\ last.op = "remove"
  /\ InList(last.class) # {}
  /\ last.calls[Len(last.calls)].prev_value # pm_qos_request(last.class)

\* the value a request of class k holds once it was given value
Stored(k, value) ==
  IF value = PM_QOS_DEFAULT_VALUE THEN constraints[k].default_value ELSE value

\* C9 (as claimed): when pm_qos_update_request_timeout(req, v, t) returns the
\* request holds v (the default_value of its class standing for
\* PM_QOS_DEFAULT_VALUE), and when the timeout work has run on a request its
\* value is the default_value of its class and the target is recomputed.
C9_TimeoutHoldsValue ==
  /\ last.op = "timeout" =>
       req[last.req].prio = Stored(last.class, last.value)
  /\ (last.op = "work" /\ panic = "none") =>
       /\ req[last.req].prio = constraints[last.class].default_value
       /\ pm_qos_request(last.class) = Aggregate(last.class)

\* the target of cpu in class k, from the requests and their masks
PerCpuExpected(k, cpu) ==
  CASE TypeOf(k) = "PM_QOS_MIN" -> MinOf(AffineValues(k, cpu))
    [] TypeOf(k) = "PM_QOS_MAX" -> MaxOf(AffineValues(k, cpu))
    [] TypeOf(k) = "PM_QOS_FORCE_MAX" ->
         IF AffineValues(k, cpu) = {constraints[k].default_value}
              /\ \A r \in InList(k) : cpu \notin req[r].cpus_affine
         THEN constraints[k].default_value
         ELSE MaxOf({req[r].prio : r \in {x \in InList(k) : cpu \in req[x].cpus_affine}})
    [] OTHER -> constraints[k].target_per_cpu[cpu]

\* C6 (as claimed): when the notification of an affinity change to mask M has
\* run for a request bound to an IRQ, the cpus_affine of the request is M, the
\* notification has left its stored value as it was, and the per-CPU targets of
\* the class are those of the requests with their present masks.
C6_IrqNotifyKeepsValue ==
  (last.op = "irq_notify" /\ panic = "none") =>
    /\ req[last.req].cpus_affine = last.mask
    /\ req[last.req].prio = last.old
    /\ \A cpu \in CPUS :
         pm_qos_request_for_cpu(last.class, cpu) = PerCpuExpected(last.class, cpu)

\* C10 (as claimed): every change to the constraint data of a class is made
\* by a call that holds pm_qos_lock.
C10_ChangesUnderLock ==
  [][constraints' # constraints => (pm_qos_lock # 0 /\ uc' = uc)]_vars

\* C11: after every pm_qos_update_flags, effective_flags is the OR of the
\* flags of the requests in the list (0 when it is empty), and the call
\* returned true exactly when that OR differs from the OR before the call.
C11_FlagsAreOrOfList ==
  /\ pqf.effective_flags = flags_of_list(pqf.list, flags_req)
  /\ flags_last.action # "none" =>
       (flags_last.ret <=>
          flags_of_list(pqf.list, flags_req)
            # flags_of_list(flags_last.list, flags_last.flags))

\* an update that takes a bit away which no other request holds, with another
\* request left in the list, and returns true
C11_Witness ==
  /\ flags_last.action = "PM_QOS_UPDATE_REQ"
  /\ flags_last.ret
  /\ Len(pqf.list) = 2
  /\ pqf.effective_flags = 1
  /\ flags_of_list(flags_last.list, flags_last.flags) = 3

\* the wakeup counters a caller saw at its last check show an event
SawWakeup(t) == thread[t].seen.inpr \/ thread[t].seen.cnt # thread[t].wd

\* the sync work a caller waited on has finished a run since it registered
WorkRanSince(t) ==
  intr_sync_work[thread[t].work_idx].version > thread[t].work_ver

\* C12 (as claimed): intr_sync returns -EBUSY or 0; a caller that went on
\* after a check saw no wakeup event at it; a caller that returned -EBUSY saw
\* one; and a caller that returned 0 waited on a sync work that has finished a
\* run since.
C12_EbusyOrWorkDone ==
  \A t \in Threads :
    /\ thread[t].ret \in {"none", "0", "-EBUSY"}
    /\ thread[t].pc = "lock" => ~thread[t].seen.inpr
    /\ thread[t].pc = "wait" => ~SawWakeup(t)
    /\ thread[t].ret = "-EBUSY" => SawWakeup(t)
    /\ thread[t].ret = "0" => (thread[t].path = "workqueue" /\ WorkRanSince(t))

\* C12 (amended): as above, but a caller also returns 0 when no workqueue
\* could be created and it has called sys_sync() itself.
C12_EbusyOrSynced ==
  \A t \in Threads :
    /\ thread[t].ret \in {"none", "0", "-EBUSY"}
    /\ thread[t].pc = "lock" => ~thread[t].seen.inpr
    /\ thread[t].pc = "wait" => ~SawWakeup(t)
    /\ thread[t].ret = "-EBUSY" => SawWakeup(t)
    /\ thread[t].ret = "0" =>
         \/ thread[t].path = "sys_sync" /\ thread[t].reg_state = "none"
         \/ thread[t].path = "workqueue" /\ WorkRanSince(t)

\* one caller returned -EBUSY from the check in its loop, another returned 0
\* from the workqueue, and the wakeup event was counted
C12_Witness ==
  /\ \E t \in Threads : thread[t].ret = "-EBUSY" /\ thread[t].path = "check"
  /\ \E t \in Threads : thread[t].ret = "0" /\ thread[t].path = "workqueue"
  /\ wakeup.cnt = 1

\* C13: a caller that returned 0 through the workqueue registered when the
\* worker had begun reg_sync calls of sys_sync; a later one has returned.
C13_SyncAfterRegistration ==
  \A t \in Threads :
    (thread[t].ret = "0" /\ thread[t].path = "workqueue") =>
      sys_sync.done > thread[t].reg_sync

\* a caller returned 0 for the second sys_sync, having registered on the
\* queued work while the first was running, and a run was left out because its
\* only waiter had gone
C13_Witness ==
  /\ \E t \in Threads :
       /\ thread[t].ret = "0" /\ thread[t].path = "workqueue"
       /\ thread[t].reg_sync = 1
  /\ sys_sync.done = 2
  /\ intr_sync_work[0].version + intr_sync_work[1].version > sys_sync.done

\* C14: a step that raises the waiter count of a sync work finds the work not
\* RUNNING; it puts an IDLE work on the workqueue as QUEUED, and it leaves a
\* QUEUED work and the workqueue as they are but for the count.
C14_NoWaiterOnRunning ==
  [][\A i \in {0, 1} :
       intr_sync_work'[i].waiter > intr_sync_work[i].waiter =>
         /\ intr_sync_work[i].state # "INTR_SYNC_STATE_RUNNING"
         /\ intr_sync_work'[i].waiter = intr_sync_work[i].waiter + 1
         /\ intr_sync_work'[i].state = "INTR_SYNC_STATE_QUEUED"
         /\ intr_sync_work[i].state = "INTR_SYNC_STATE_IDLE" =>
              wq_queue' = Append(wq_queue, i)
         /\ intr_sync_work[i].state = "INTR_SYNC_STATE_QUEUED" =>
              wq_queue' = wq_queue]_vars

\* while one work runs, two callers wait on the other: the first enqueued it,
\* the second found it queued
C14_Witness ==
  /\ \E i \in {0, 1} :
       /\ intr_sync_work[i].state = "INTR_SYNC_STATE_QUEUED"
       /\ intr_sync_work[i].waiter = 2
       /\ intr_sync_work[1 - i].state = "INTR_SYNC_STATE_RUNNING"
  /\ \E t \in Threads : thread[t].reg_state = "INTR_SYNC_STATE_QUEUED"
  /\ \E t \in Threads : thread[t].reg_state = "INTR_SYNC_STATE_IDLE"

\* the buffers that were in the RX list when poison_channel was called
WaitingAtPoison == core.waiting

\* C15: after poison_channel on the RX channel has returned, the channel is
\* closed, the RX list is empty, and every buffer that was waiting in the
\* list has been completed with MBO_E_CLOSE and processed_length 0
C15_PoisonCompletesWaiting ==
  core.returned =>
    /\ ~dev.is_open[CH_RX]
    /\ dev.rx_list = << >>
    /\ \A m \in WaitingAtPoison :
         /\ mbo[m].state = "done"
         /\ mbo[m].status = "MBO_E_CLOSE"
         /\ mbo[m].processed_length = 0

\* the states of the RX work in which it has not reached the end of
\* pending_rx_work
BeforeTail == {"pml", "msg", "wait", "open", "lock", "copy", "tail"}

\* C16: on a device in interrupt mode every enable_irq meets a disabled
\* line, the disables exceed the enables by the depth of the line, the line
\* is disabled exactly while the RX work is queued or has not reached the end
\* of pending_rx_work, and a run of pending_rx_work has enabled the line not
\* at all before that end and once after it
C16_IrqBalanced ==
  (dev.probed /\ ~dev.polling_mode) =>
    /\ ~irq.unbalanced
    /\ irq.disables - irq.enables = irq.depth
    /\ irq.depth = IF rx_work.pending \/ rx_work.pc \in BeforeTail
                     THEN 1 ELSE 0
    /\ rx_work.pc \in BeforeTail => rx_work.enabled = 0
    /\ rx_work.pc = "ret" => rx_work.enabled = 1

\* every interrupt has been taken and answered by a run of the work, one of
\* them read a message into a buffer, and the line is enabled
C16_Witness ==
  /\ dev.probed /\ ~dev.polling_mode
  /\ irq.disables = MaxIrq
  /\ irq.enables = MaxIrq
  /\ irq.depth = 0
  /\ rx_work.pc = "idle"
  /\ \E m \in Mbos : mbo[m].status = "MBO_SUCCESS" /\ mbo[m].by = "rx"

\* the bytes the ring holds between the read and the write index of a call
AvailableBytes(call) ==
  IF call.wr_idx >= call.rd_idx
    THEN call.wr_idx - call.rd_idx
    ELSE call.buffer_size - (call.rd_idx - call.wr_idx)

====
